---- MODULE Spec2Model ----
(***************************************************************************)
(* vpoker: the concurrent table-state engine.                              *)
(*                                                                         *)
(* One poker table (items, seated players, its read/write lock), the       *)
(* request handlers that mutate it, the per-viewer visibility filter and   *)
(* the push fan-out over unbuffered per-player channels.                   *)
(***************************************************************************)
EXTENDS Naturals, Sequences, FiniteSets, TLC

VARIABLES
    registered,  \* the table is stored in s.tables
    items,       \* Table.Items: sequence of TableItem records
    players,     \* Table.Players: function seated user -> Player record
    readers,     \* request tasks holding the table's shared lock
    handlers,    \* request tasks the server runs at the same time
    task,        \* request tasks: position and locals of each handler
    viewer,      \* listen requests (one per channel): position and locals
    chans,       \* state of each channel made by a listen request
    nextChan,    \* number of channels made so far
    budget,      \* requests the run still serves
    out,         \* what this step sent out of the engine (response or push)
    txn,         \* the transaction this step ran, with the table as it found it
    vis          \* scratch item for the visibility filter on its own

vars == <<registered, items, players, readers, handlers, task, viewer, chans,
          nextChan, budget, out, txn, vis>>

----------------------------------------------------------------------------
(* Bounds of the model *)

NumCards == 1       \* cards laid out by StartGame
ChipsPerSeat == 1   \* chips created for a seat by Join
NumTasks == 2       \* concurrent request handlers
MaxChans == 2       \* listen requests (each makes one channel)
MaxReq == 2         \* requests served in one run of Spec

(* Program constants *)

maxPlayers == 3

Users == {"A", "B", "C", "D"}

Cover == "cover"
Face == "face"
BlankSuit == ""
Spades == "spades"
Hearts == "hearts"

CardClass == "card"
ChipClass == "chip"
DealerClass == "dealer"
PlayerClass == "player"

Refresh == "refresh"
PlayerJoined == "player_joined"
UpdateItems == "update_items"

PlayerColors == <<"#FF5733", "#9B59B6", "#2ECC71">>

chipsSet == <<[Color |-> "gray", Val |-> 1], [Color |-> "red", Val |-> 5],
              [Color |-> "blue", Val |-> 10], [Color |-> "green", Val |-> 25],
              [Color |-> "black", Val |-> 50]>>

(* HTTP statuses of the responses *)
StatusOK == "200 OK"
StatusFound == "302 Found"
StatusBadRequest == "400 Bad Request"
StatusForbidden == "403 Forbidden"
StatusNotFound == "404 Not Found"

Tasks == 1..NumTasks
Chans == 1..MaxChans

----------------------------------------------------------------------------
(* Entity model *)

\* NewTableItem: a TableItem with the zero value in every other field
NewTableItem(id, x, y) ==
    [ID |-> id, Class |-> "", OwnerID |-> "", Side |-> "", Rank |-> "",
     Suit |-> BlankSuit, Color |-> "", Val |-> 0, X |-> x, Y |-> y]

AsCard(ti, c) ==
    [ti EXCEPT !.Suit = c.Suit, !.Rank = c.Rank, !.Side = c.Side,
               !.Class = CardClass]

AsChip(ti, c) == [ti EXCEPT !.Color = c.Color, !.Val = c.Val, !.Class = ChipClass]

AsPlayer(ti, u) == [ti EXCEPT !.OwnerID = u, !.Class = PlayerClass]

Is(ti, cls) == ti.Class = cls

IsOwnedBy(ti, id) == ti.OwnerID = id

IsOwned(ti) == ti.OwnerID # ""

\* TableItemList.Get: the first item with this id, or none
HasItem(l, id) == \E i \in 1..Len(l) : l[i].ID = id

IndexOf(l, id) == CHOOSE i \in 1..Len(l) :
                      l[i].ID = id /\ \A j \in 1..(i - 1) : l[j].ID # id

Get(l, id) == l[IndexOf(l, id)]

----------------------------------------------------------------------------
(* Visibility filter *)

\* a filter that forgets to blank the rank and suit of a covered card
ApplyVisibilityRulesNoBlank(ti, curUser) ==
    IF ~Is(ti, CardClass) THEN ti
    ELSE IF IsOwnedBy(ti, curUser) THEN [ti EXCEPT !.Side = Face]
    ELSE IF IsOwned(ti) THEN [ti EXCEPT !.Side = Cover]
    ELSE ti

\* a filter that also acts on items that are not cards
ApplyVisibilityRulesAnyClass(ti, curUser) ==
    LET s1 == IF IsOwnedBy(ti, curUser) THEN [ti EXCEPT !.Side = Face] ELSE ti
        s2 == IF IsOwned(s1) /\ ~IsOwnedBy(s1, curUser)
              THEN [s1 EXCEPT !.Side = Cover] ELSE s1
    IN  IF s2.Side = Cover THEN [s2 EXCEPT !.Rank = "", !.Suit = BlankSuit]
        ELSE s2

\* a filter that turns another player's card over instead of covering it
ApplyVisibilityRulesToggle(ti, curUser) ==
    IF ~Is(ti, CardClass) THEN ti
    ELSE LET s1 == IF IsOwnedBy(ti, curUser) THEN [ti EXCEPT !.Side = Face]
                   ELSE ti
             s2 == IF IsOwned(s1) /\ ~IsOwnedBy(s1, curUser)
                   THEN [s1 EXCEPT !.Side = IF s1.Side = Cover THEN Face
                                             ELSE Cover]
                   ELSE s1
         IN  IF s2.Side = Cover THEN [s2 EXCEPT !.Rank = "", !.Suit = BlankSuit]
             ELSE s2

\* a filter that shows the owner its card as it is stored
ApplyVisibilityRulesOwnerAsStored(ti, curUser) ==
    IF ~Is(ti, CardClass) THEN ti
    ELSE LET s2 == IF IsOwned(ti) /\ ~IsOwnedBy(ti, curUser)
                   THEN [ti EXCEPT !.Side = Cover] ELSE ti
         IN  IF s2.Side = Cover THEN [s2 EXCEPT !.Rank = "", !.Suit = BlankSuit]
             ELSE s2

\* a filter that covers every card its viewer does not own
ApplyVisibilityRulesCoversUnowned(ti, curUser) ==
    IF ~Is(ti, CardClass) THEN ti
    ELSE LET s1 == IF IsOwnedBy(ti, curUser) THEN [ti EXCEPT !.Side = Face]
                   ELSE ti
             s2 == IF ~IsOwnedBy(s1, curUser) THEN [s1 EXCEPT !.Side = Cover]
                   ELSE s1
         IN  IF s2.Side = Cover THEN [s2 EXCEPT !.Rank = "", !.Suit = BlankSuit]
             ELSE s2

\* TableItem.ApplyVisibilityRules: the item as curUser may see it
ApplyVisibilityRules(ti, curUser) ==
    IF ~Is(ti, CardClass) THEN ti
    ELSE LET s1 == IF IsOwnedBy(ti, curUser) THEN [ti EXCEPT !.Side = Face]
                   ELSE ti
             isOwnedBySomeoneElse == IsOwned(s1) /\ ~IsOwnedBy(s1, curUser)
             s2 == IF isOwnedBySomeoneElse THEN [s1 EXCEPT !.Side = Cover]
                   ELSE s1
         IN  IF s2.Side = Cover THEN [s2 EXCEPT !.Rank = "", !.Suit = BlankSuit]
             ELSE s2

----------------------------------------------------------------------------
(* JSON round trips used for deep copies *)

\* TableItem through json.Marshal and json.Unmarshal: every field is exported
\* and tagged, so each one is written and read back
CopyItem(ti) ==
    [ID |-> ti.ID, Class |-> ti.Class, OwnerID |-> ti.OwnerID,
     Side |-> ti.Side, Rank |-> ti.Rank, Suit |-> ti.Suit,
     Color |-> ti.Color, Val |-> ti.Val, X |-> ti.X, Y |-> ti.Y]

\* Player through json: the unexported channel field is not written, the copy
\* has none
CopyPlayer(p) == [Color |-> p.Color, Index |-> p.Index, updates |-> 0]

CopyPlayers(ps) == [u \in DOMAIN ps |-> CopyPlayer(ps[u])]

CopyItems(l) == [i \in 1..Len(l) |-> CopyItem(l[i])]

----------------------------------------------------------------------------
(* The table: the operations run inside its transactions *)

\* all orders in which the elements of S can be listed
Perms(S) == {s \in [1..Cardinality(S) -> S] :
                \A i, j \in 1..Cardinality(S) : i # j => s[i] # s[j]}

\* the card dealt at place i of the deck
Deck(i) == IF i % 2 = 1 THEN [Rank |-> "A", Suit |-> Spades, Side |-> Cover]
           ELSE [Rank |-> "K", Suit |-> Hearts, Side |-> Cover]

\* Table.StartGame: the deck laid out, every card covered and unowned
StartGame == [i \in 1..NumCards |-> AsCard(NewTableItem(i, 0, 0), Deck(i))]

newPlayer(c, index) == [Color |-> c, Index |-> index, updates |-> 0]

\* the items Table.Join creates for the seat of user u: the player marker and
\* the chips of the seat, with the next free ids
JoinItems(l, u) ==
    <<AsPlayer(NewTableItem(Len(l) + 1, 0, 0), u)>> \o
    [k \in 1..ChipsPerSeat |->
        AsChip(NewTableItem(Len(l) + 1 + k, 0, 0),
               chipsSet[((k - 1) % Len(chipsSet)) + 1])]

\* Table.Join: the next free seat index and the color of that seat
JoinPlayers(ps, u) ==
    LET index == Cardinality(DOMAIN ps)
        p == newPlayer(PlayerColors[(index % Len(PlayerColors)) + 1], index)
    IN  [v \in DOMAIN ps \cup {u} |-> IF v = u THEN p ELSE ps[v]]

\* Table.OtherPlayers: every seated player but u
OtherPlayers(ps, u) == DOMAIN ps \ {u}

\* TableItem.Take: u becomes the owner, the card is covered
Take(ti, u) == [ti EXCEPT !.OwnerID = u, !.Side = Cover]

\* TableItem.Show: only the owner may turn the card face up
ShowAllowed(ti, u) == IsOwnedBy(ti, u)

Show(ti, u) == [ti EXCEPT !.Side = Face]

\* Table.Shuffle: the deck dealt again in the order perm, every card covered
Shuffle(l, perm) ==
    [i \in 1..Len(l) |->
        IF Is(l[i], CardClass) /\ l[i].ID \in 1..NumCards
        THEN [l[i] EXCEPT !.Rank = Deck(perm[l[i].ID]).Rank,
                          !.Suit = Deck(perm[l[i].ID]).Suit,
                          !.Side = Cover, !.X = 0, !.Y = 0]
        ELSE l[i]]

----------------------------------------------------------------------------
(* State of the handlers *)

NoPlayers == [u \in {} |-> newPlayer("", 0)]

\* the body of a request: the id of take and show, the item of update
Arg(id) == [ID |-> id, Class |-> "", X |-> 0, Y |-> 0, Side |-> "",
            OwnerID |-> ""]

\* no table
NoTable == [items |-> <<>>, players |-> NoPlayers]

\* arg: the body of the request while its transaction runs;
\* pre: the table as it was when the handler entered its transaction, and
\* seated: the users seated when the transaction of takeCard or of a join
\* that seats a player committed (the handler keeps neither; the properties
\* read them)
IdleTask == [pc |-> "idle", op |-> "", user |-> "", updated |-> {},
             refs |-> {}, players |-> FALSE, notifyThem |-> <<>>, ch |-> 0,
             code |-> "", seated |-> {}, arg |-> Arg(0), pre |-> NoTable]

NoPush == [Type |-> "", Items |-> {}, Refs |-> {}, Players |-> FALSE]

\* attached: Subscribe has attached the channel of this connection to its
\* player; seated: the users seated when the transaction that made the event
\* in update committed (the handler keeps neither; the properties read them)
IdleViewer == [pc |-> "off", user |-> "", update |-> NoPush,
               attached |-> FALSE, seated |-> {}]

\* log: the line the step wrote with logger.Error, if any
NoOut == [kind |-> "none", to |-> "", op |-> "", code |-> "", msg |-> "",
          src |-> {}, items |-> {}, items2 |-> {}, players |-> NoPlayers,
          log |-> ""]

IdleVis == [pc |-> "off", item |-> NewTableItem(0, 0, 0), viewer |-> "",
            out |-> NewTableItem(0, 0, 0), prev |-> NewTableItem(0, 0, 0)]

\* no transaction ran in this step
NoTxn == [t |-> 0, op |-> "", user |-> "", arg |-> Arg(0), items |-> <<>>,
          players |-> NoPlayers]

\* the function that handler t of user u passes to Table.Update or
\* Table.ReadLock for operation op, and the table it is run on
Txn(t, op, u, arg) == [t |-> t, op |-> op, user |-> u, arg |-> arg,
                       items |-> items, players |-> players]

\* the same card in a run whose deck holds another rank and suit at its place
AltSecret(ti) ==
    IF ~Is(ti, CardClass) THEN ti
    ELSE [ti EXCEPT !.Rank = IF ti.Rank = "A" THEN "K"
                              ELSE IF ti.Rank = "K" THEN "A" ELSE ti.Rank,
                    !.Suit = IF ti.Suit = Spades THEN Hearts
                              ELSE IF ti.Suit = Hearts THEN Spades ELSE ti.Suit]

\* httpx.NewError returned by a handler to user u
ErrorOut(u, op, code, msg) ==
    [NoOut EXCEPT !.kind = "response", !.to = u, !.op = op, !.code = code,
                  !.msg = msg]

\* httpx.JSON(StatusOK, ItemUpdatedResponse{Updated: &updated}) or
\* httpx.Redirect: what the handler of task record tk answers
ResponseOut(tk) ==
    [NoOut EXCEPT !.kind = "response", !.to = tk.user, !.op = tk.op,
                  !.code = tk.code, !.src = tk.updated, !.items = tk.updated,
                  !.items2 = {AltSecret(i) : i \in tk.updated}]

\* the Push a handler hands to NotifyAll
NewPushItems(updated) ==
    [Type |-> UpdateItems, Items |-> updated, Refs |-> {}, Players |-> FALSE]

NewPushPlayerJoined(refs) ==
    [Type |-> PlayerJoined, Items |-> {}, Refs |-> refs, Players |-> TRUE]

NewPushRefresh == [Type |-> Refresh, Items |-> {}, Refs |-> {}, Players |-> FALSE]

\* handlers that announce a join as a change of items
PushOfJoinAsItems(tk) ==
    IF tk.op = "shuffle" THEN NewPushRefresh
    ELSE NewPushItems(tk.updated)

PushOf(tk) ==
    IF tk.op = "shuffle" THEN NewPushRefresh
    ELSE IF tk.op = "join" THEN NewPushPlayerJoined(tk.refs)
    ELSE NewPushItems(tk.updated)

\* the handler's way on after its transaction committed: NotifyAll over the
\* players in tk.notifyThem, then the response
AfterCommit(t, tk) ==
    IF tk.notifyThem = <<>>
    THEN /\ task' = [task EXCEPT ![t] = IdleTask]
         /\ out' = ResponseOut(tk)
    ELSE /\ task' = [task EXCEPT ![t] = [tk EXCEPT !.pc = "notify"]]
         /\ out' = NoOut

\* no handler is inside a transaction function
NoWriter == \A t \in Tasks : task[t].pc \notin {"locked", "half"}

\* Table.Update can take the exclusive lock: no shared section is open and
\* no other exclusive section is
CanLock == readers = {} /\ NoWriter

\* a request starts in the first handler that is free (handlers are
\* interchangeable)
FreeTask(t) ==
    /\ t \in handlers
    /\ task[t].pc = "idle"
    /\ \A t2 \in 1..(t - 1) : task[t2].pc # "idle"

Begin(t) == registered /\ FreeTask(t) /\ budget > 0

NotSeated(u, op) == ErrorOut(u, op, StatusForbidden, "you are not at the table")

----------------------------------------------------------------------------
(* Mutation entry points *)

\* a joinTable that lets a table of maxPlayers take one more
JoinTableOffByOne(t, u) ==
    /\ Begin(t) /\ CanLock
    /\ budget' = budget - 1
    /\ LET hasJoined == u \in DOMAIN players
           tk == [IdleTask EXCEPT !.op = "join", !.user = u,
                                  !.code = StatusFound]
       IN  IF hasJoined
           THEN /\ UNCHANGED <<items, players>>
                /\ AfterCommit(t, tk)
           ELSE IF Cardinality(DOMAIN players) > maxPlayers
           THEN /\ UNCHANGED <<items, players, task>>
                /\ out' = ErrorOut(u, "join", StatusForbidden,
                                   "this table is full")
           ELSE \E order \in Perms(OtherPlayers(JoinPlayers(players, u), u)) :
                /\ items' = items \o JoinItems(items, u)
                /\ players' = JoinPlayers(players, u)
                /\ AfterCommit(t,
                       [tk EXCEPT !.refs = {JoinItems(items, u)[i].ID :
                                              i \in 1..Len(JoinItems(items, u))},
                                  !.players = TRUE,
                                  !.notifyThem = order])
    /\ txn' = Txn(t, "join", u, Arg(0))
    /\ UNCHANGED <<registered, readers, viewer, chans, nextChan, vis,
                   handlers>>

\* a joinTable that seats a user again who is seated already
JoinTableAgain(t, u) ==
    /\ Begin(t) /\ CanLock
    /\ budget' = budget - 1
    /\ LET hasJoined == FALSE
           tk == [IdleTask EXCEPT !.op = "join", !.user = u,
                                  !.code = StatusFound]
       IN  IF hasJoined
           THEN /\ UNCHANGED <<items, players>>
                /\ AfterCommit(t, tk)
           ELSE IF Cardinality(DOMAIN players) >= maxPlayers
           THEN /\ UNCHANGED <<items, players, task>>
                /\ out' = ErrorOut(u, "join", StatusForbidden,
                                   "this table is full")
           ELSE \E order \in Perms(OtherPlayers(JoinPlayers(players, u), u)) :
                /\ items' = items \o JoinItems(items, u)
                /\ players' = JoinPlayers(players, u)
                /\ AfterCommit(t,
                       [tk EXCEPT !.refs = {JoinItems(items, u)[i].ID :
                                              i \in 1..Len(JoinItems(items, u))},
                                  !.players = TRUE,
                                  !.notifyThem = order])
    /\ txn' = Txn(t, "join", u, Arg(0))
    /\ UNCHANGED <<registered, readers, viewer, chans, nextChan, vis,
                   handlers>>

\* a joinTable that counts the seats after Table.Join has run
JoinTableSeatsThenCounts(t, u) ==
    /\ Begin(t) /\ CanLock
    /\ budget' = budget - 1
    /\ LET hasJoined == u \in DOMAIN players
           tk == [IdleTask EXCEPT !.op = "join", !.user = u,
                                  !.code = StatusFound]
       IN  IF hasJoined
           THEN /\ UNCHANGED <<items, players>>
                /\ AfterCommit(t, tk)
           ELSE IF Cardinality(DOMAIN players) >= maxPlayers
           THEN /\ items' = items \o JoinItems(items, u)
                /\ players' = JoinPlayers(players, u)
                /\ UNCHANGED task
                /\ out' = ErrorOut(u, "join", StatusForbidden,
                                   "this table is full")
           ELSE \E order \in Perms(OtherPlayers(JoinPlayers(players, u), u)) :
                /\ items' = items \o JoinItems(items, u)
                /\ players' = JoinPlayers(players, u)
                /\ AfterCommit(t,
                       [tk EXCEPT !.refs = {JoinItems(items, u)[i].ID :
                                              i \in 1..Len(JoinItems(items, u))},
                                  !.players = TRUE,
                                  !.notifyThem = order])
    /\ txn' = Txn(t, "join", u, Arg(0))
    /\ UNCHANGED <<registered, readers, viewer, chans, nextChan, vis,
                   handlers>>

\* server.joinTable: the transaction, up to NotifyAll
JoinTable(t, u) ==
    /\ Begin(t) /\ CanLock
    /\ budget' = budget - 1
    /\ LET hasJoined == u \in DOMAIN players
           tk == [IdleTask EXCEPT !.op = "join", !.user = u,
                                  !.code = StatusFound]
       IN  IF hasJoined
           THEN /\ UNCHANGED <<items, players>>
                /\ AfterCommit(t, tk)
           ELSE IF Cardinality(DOMAIN players) >= maxPlayers
           THEN /\ UNCHANGED <<items, players, task>>
                /\ out' = ErrorOut(u, "join", StatusForbidden,
                                   "this table is full")
           ELSE \E order \in Perms(OtherPlayers(JoinPlayers(players, u), u)) :
                /\ items' = items \o JoinItems(items, u)
                /\ players' = JoinPlayers(players, u)
                /\ AfterCommit(t,
                       [tk EXCEPT !.refs = {JoinItems(items, u)[i].ID :
                                              i \in 1..Len(JoinItems(items, u))},
                                  !.players = TRUE,
                                  !.seated = DOMAIN JoinPlayers(players, u),
                                  !.notifyThem = order])
    /\ txn' = Txn(t, "join", u, Arg(0))
    /\ UNCHANGED <<registered, readers, viewer, chans, nextChan, vis,
                   handlers>>

\* server.takeCard: the exclusive transaction that takes the item
TakeCard(t, u, id) ==
    /\ Begin(t) /\ CanLock
    /\ budget' = budget - 1
    /\ IF u \notin DOMAIN players
       THEN /\ out' = NotSeated(u, "take")
            /\ UNCHANGED <<items, task>>
       ELSE IF ~HasItem(items, id)
       THEN /\ out' = ErrorOut(u, "take", StatusNotFound, "item not found")
            /\ UNCHANGED <<items, task>>
       ELSE LET i == IndexOf(items, id)
                taken == Take(items[i], u)
            IN  /\ items' = [items EXCEPT ![i] = taken]
                /\ task' = [task EXCEPT ![t] =
                               [IdleTask EXCEPT
                                   !.pc = "rlock", !.op = "take", !.user = u,
                                   !.code = StatusOK,
                                   !.seated = DOMAIN players,
                                   !.updated = {[taken EXCEPT !.Side = Face]}]]
                /\ out' = NoOut
    /\ txn' = Txn(t, "take", u, Arg(id))
    /\ UNCHANGED <<registered, players, readers, viewer, chans, nextChan, vis,
                   handlers>>

\* server.takeCard, after the transaction: the shared section in which the
\* other players are read and notified
TakeCardReadLock(t) ==
    /\ task[t].pc = "rlock" /\ NoWriter
    /\ \E order \in Perms(OtherPlayers(players, task[t].user)) :
         IF order = <<>>
         THEN /\ task' = [task EXCEPT ![t] = IdleTask]
              /\ out' = ResponseOut(task[t])
              /\ readers' = readers
         ELSE /\ task' = [task EXCEPT ![t].pc = "notify",
                                      ![t].notifyThem = order]
              /\ out' = NoOut
              /\ readers' = readers \cup {t}
    /\ txn' = NoTxn
    /\ UNCHANGED <<registered, items, players, viewer, chans, nextChan, budget,
                   vis,
                   handlers>>

\* a showCard whose Show turns the card before it looks at the owner
ShowCardTurnsFirst(t, u, id) ==
    /\ Begin(t) /\ CanLock
    /\ budget' = budget - 1
    /\ IF u \notin DOMAIN players
       THEN /\ out' = NotSeated(u, "show")
            /\ UNCHANGED <<items, task>>
       ELSE IF ~HasItem(items, id)
       THEN /\ out' = ErrorOut(u, "show", StatusNotFound, "item not found")
            /\ UNCHANGED <<items, task>>
       ELSE IF ~ShowAllowed(Get(items, id), u)
       THEN /\ out' = ErrorOut(u, "show", StatusForbidden, "forbidden")
            /\ items' = [items EXCEPT ![IndexOf(items, id)] = Show(@, u)]
            /\ UNCHANGED task
       ELSE \E order \in Perms(OtherPlayers(players, u)) :
            LET i == IndexOf(items, id)
                shown == Show(items[i], u)
            IN  /\ items' = [items EXCEPT ![i] = shown]
                /\ AfterCommit(t, [IdleTask EXCEPT
                                      !.op = "show", !.user = u,
                                      !.code = StatusOK, !.updated = {shown},
                                      !.notifyThem = order])
    /\ txn' = Txn(t, "show", u, Arg(id))
    /\ UNCHANGED <<registered, players, readers, viewer, chans, nextChan, vis,
                   handlers>>

\* server.showCard: the transaction, up to NotifyAll
ShowCard(t, u, id) ==
    /\ Begin(t) /\ CanLock
    /\ budget' = budget - 1
    /\ IF u \notin DOMAIN players
       THEN /\ out' = NotSeated(u, "show")
            /\ UNCHANGED <<items, task>>
       ELSE IF ~HasItem(items, id)
       THEN /\ out' = ErrorOut(u, "show", StatusNotFound, "item not found")
            /\ UNCHANGED <<items, task>>
       ELSE IF ~ShowAllowed(Get(items, id), u)
       THEN /\ out' = ErrorOut(u, "show", StatusForbidden, "forbidden")
            /\ UNCHANGED <<items, task>>
       ELSE \E order \in Perms(OtherPlayers(players, u)) :
            LET i == IndexOf(items, id)
                shown == Show(items[i], u)
            IN  /\ items' = [items EXCEPT ![i] = shown]
                /\ AfterCommit(t, [IdleTask EXCEPT
                                      !.op = "show", !.user = u,
                                      !.code = StatusOK, !.updated = {shown},
                                      !.notifyThem = order])
    /\ txn' = Txn(t, "show", u, Arg(id))
    /\ UNCHANGED <<registered, players, readers, viewer, chans, nextChan, vis,
                   handlers>>

\* an updateItem that lets any seated user turn the item
UpdatedItemAnyone(dest, src, curUser) ==
    [dest EXCEPT !.X = src.X, !.Y = src.Y, !.Side = src.Side]

\* updateItem: the stored item after the proposed item src of curUser
UpdatedItem(dest, src, curUser) ==
    LET moved == [dest EXCEPT !.X = src.X, !.Y = src.Y]
    IN  IF dest.Side # src.Side /\ (~IsOwned(dest) \/ IsOwnedBy(dest, curUser))
        THEN [moved EXCEPT !.Side = src.Side]
        ELSE moved

\* an updateTable whose updateItem does not compare the classes
UpdateTableNoClassCheck(t, u, src) ==
    /\ Begin(t) /\ CanLock
    /\ budget' = budget - 1
    /\ IF u \notin DOMAIN players
       THEN /\ out' = NotSeated(u, "update")
            /\ UNCHANGED <<items, task>>
       ELSE IF ~HasItem(items, src.ID)
       THEN /\ out' = ErrorOut(u, "update", StatusNotFound, "item not found")
            /\ UNCHANGED <<items, task>>
       ELSE \E order \in Perms(OtherPlayers(players, u)) :
            LET i == IndexOf(items, src.ID)
                up == UpdatedItem(items[i], src, u)
            IN  /\ items' = [items EXCEPT ![i] = up]
                /\ AfterCommit(t, [IdleTask EXCEPT
                                      !.op = "update", !.user = u,
                                      !.code = StatusOK, !.updated = {up},
                                      !.notifyThem = order])
    /\ txn' = Txn(t, "update", u, src)
    /\ UNCHANGED <<registered, players, readers, viewer, chans, nextChan, vis,
                   handlers>>

\* an updateTable that hands the item to NotifyAll although updateItem
\* refused the proposed class
UpdateTableNotifiesRefused(t, u, src) ==
    /\ Begin(t) /\ CanLock
    /\ budget' = budget - 1
    /\ IF u \notin DOMAIN players
       THEN /\ out' = NotSeated(u, "update")
            /\ UNCHANGED <<items, task>>
       ELSE IF ~HasItem(items, src.ID)
       THEN /\ out' = ErrorOut(u, "update", StatusNotFound, "item not found")
            /\ UNCHANGED <<items, task>>
       ELSE IF Get(items, src.ID).Class # src.Class
       THEN \E order \in Perms(OtherPlayers(players, u)) :
            /\ out' = ErrorOut(u, "update", StatusBadRequest,
                               "attempt to update readonly field .Class")
            /\ task' = [task EXCEPT ![t] =
                           [IdleTask EXCEPT
                               !.pc = "notify", !.op = "update", !.user = u,
                               !.code = StatusBadRequest,
                               !.updated = {Get(items, src.ID)},
                               !.notifyThem = order]]
            /\ UNCHANGED items
       ELSE \E order \in Perms(OtherPlayers(players, u)) :
            LET i == IndexOf(items, src.ID)
                up == UpdatedItem(items[i], src, u)
            IN  /\ items' = [items EXCEPT ![i] = up]
                /\ AfterCommit(t, [IdleTask EXCEPT
                                      !.op = "update", !.user = u,
                                      !.code = StatusOK, !.updated = {up},
                                      !.notifyThem = order])
    /\ txn' = Txn(t, "update", u, src)
    /\ UNCHANGED <<registered, players, readers, viewer, chans, nextChan, vis,
                   handlers>>

\* an updateTable that adds the item a client proposes when the table has
\* no item of that id
UpdateTableUpserts(t, u, src) ==
    /\ Begin(t) /\ CanLock
    /\ budget' = budget - 1
    /\ IF u \notin DOMAIN players
       THEN /\ out' = NotSeated(u, "update")
            /\ UNCHANGED <<items, task>>
       ELSE IF ~HasItem(items, src.ID)
       THEN \E order \in Perms(OtherPlayers(players, u)) :
            LET up == [AsCard(NewTableItem(src.ID, src.X, src.Y),
                              Deck(1)) EXCEPT !.Side = src.Side]
            IN  /\ items' = Append(items, up)
                /\ AfterCommit(t, [IdleTask EXCEPT
                                      !.op = "update", !.user = u,
                                      !.code = StatusOK, !.updated = {up},
                                      !.notifyThem = order])
       ELSE IF Get(items, src.ID).Class # src.Class
       THEN /\ out' = ErrorOut(u, "update", StatusBadRequest,
                               "attempt to update readonly field .Class")
            /\ UNCHANGED <<items, task>>
       ELSE \E order \in Perms(OtherPlayers(players, u)) :
            LET i == IndexOf(items, src.ID)
                up == UpdatedItem(items[i], src, u)
            IN  /\ items' = [items EXCEPT ![i] = up]
                /\ AfterCommit(t, [IdleTask EXCEPT
                                      !.op = "update", !.user = u,
                                      !.code = StatusOK, !.updated = {up},
                                      !.notifyThem = order])
    /\ txn' = Txn(t, "update", u, src)
    /\ UNCHANGED <<registered, players, readers, viewer, chans, nextChan, vis,
                   handlers>>

\* server.updateTable with updateItem: the transaction, up to NotifyAll
UpdateTable(t, u, src) ==
    /\ Begin(t) /\ CanLock
    /\ budget' = budget - 1
    /\ IF u \notin DOMAIN players
       THEN /\ out' = NotSeated(u, "update")
            /\ UNCHANGED <<items, task>>
       ELSE IF ~HasItem(items, src.ID)
       THEN /\ out' = ErrorOut(u, "update", StatusNotFound, "item not found")
            /\ UNCHANGED <<items, task>>
       ELSE IF Get(items, src.ID).Class # src.Class
       THEN /\ out' = ErrorOut(u, "update", StatusBadRequest,
                               "attempt to update readonly field .Class")
            /\ UNCHANGED <<items, task>>
       ELSE \E order \in Perms(OtherPlayers(players, u)) :
            LET i == IndexOf(items, src.ID)
                up == UpdatedItem(items[i], src, u)
            IN  /\ items' = [items EXCEPT ![i] = up]
                /\ AfterCommit(t, [IdleTask EXCEPT
                                      !.op = "update", !.user = u,
                                      !.code = StatusOK, !.updated = {up},
                                      !.notifyThem = order])
    /\ txn' = Txn(t, "update", u, src)
    /\ UNCHANGED <<registered, players, readers, viewer, chans, nextChan, vis,
                   handlers>>

\* server.shuffle: the transaction, up to NotifyAll
ShuffleTable(t, u) ==
    /\ Begin(t) /\ CanLock
    /\ budget' = budget - 1
    /\ IF u \notin DOMAIN players
       THEN /\ out' = NotSeated(u, "shuffle")
            /\ UNCHANGED <<items, task>>
       ELSE \E perm \in Perms(1..NumCards),
               order \in Perms(OtherPlayers(players, u)) :
            /\ items' = Shuffle(items, perm)
            /\ AfterCommit(t, [IdleTask EXCEPT
                                  !.op = "shuffle", !.user = u,
                                  !.code = StatusFound, !.notifyThem = order])
    /\ txn' = Txn(t, "shuffle", u, Arg(0))
    /\ UNCHANGED <<registered, players, readers, viewer, chans, nextChan, vis,
                   handlers>>

----------------------------------------------------------------------------
(* The transactions write by write: Table.Update holds the exclusive lock    *)
(* from the call to the return of the function it runs                        *)

\* the checks a transaction function makes before its first write: the
\* error it returns, or none
TxnError(its, ps, op, u, arg) ==
    IF op = "join"
    THEN IF u \notin DOMAIN ps /\ Cardinality(DOMAIN ps) >= maxPlayers
         THEN [code |-> StatusForbidden, msg |-> "this table is full"]
         ELSE [code |-> "", msg |-> ""]
    ELSE IF u \notin DOMAIN ps
    THEN [code |-> StatusForbidden, msg |-> "you are not at the table"]
    ELSE IF op = "shuffle" THEN [code |-> "", msg |-> ""]
    ELSE IF ~HasItem(its, arg.ID)
    THEN [code |-> StatusNotFound, msg |-> "item not found"]
    ELSE IF op = "update" /\ Get(its, arg.ID).Class # arg.Class
    THEN [code |-> StatusBadRequest,
          msg |-> "attempt to update readonly field .Class"]
    ELSE IF op = "show" /\ ~ShowAllowed(Get(its, arg.ID), u)
    THEN [code |-> StatusForbidden, msg |-> "forbidden"]
    ELSE [code |-> "", msg |-> ""]

\* the first writes of a transaction function: join seats the player, take
\* sets the owner, update sets x and y, shuffle deals rank and suit; show
\* has written nothing yet
FirstWrites(its, ps, op, u, arg, perm) ==
    IF op = "join" THEN [items |-> its, players |-> JoinPlayers(ps, u)]
    ELSE IF op = "shuffle"
    THEN [items |-> [i \in 1..Len(its) |->
                        IF Is(its[i], CardClass) /\ its[i].ID \in 1..NumCards
                        THEN [its[i] EXCEPT
                                 !.Rank = Deck(perm[its[i].ID]).Rank,
                                 !.Suit = Deck(perm[its[i].ID]).Suit]
                        ELSE its[i]],
          players |-> ps]
    ELSE LET i == IndexOf(its, arg.ID)
         IN  [items |-> [its EXCEPT ![i] =
                            IF op = "take" THEN [@ EXCEPT !.OwnerID = u]
                            ELSE IF op = "update"
                            THEN [@ EXCEPT !.X = arg.X, !.Y = arg.Y]
                            ELSE @],
              players |-> ps]

\* the last writes of a transaction function: join adds the items of the
\* seat, take covers the card, update turns it if the user may, show turns
\* it face up, shuffle covers the cards and puts them back
LastWrites(its, op, u, arg) ==
    IF op = "join" THEN its \o JoinItems(its, u)
    ELSE IF op = "shuffle"
    THEN [i \in 1..Len(its) |->
             IF Is(its[i], CardClass) /\ its[i].ID \in 1..NumCards
             THEN [its[i] EXCEPT !.Side = Cover, !.X = 0, !.Y = 0]
             ELSE its[i]]
    ELSE LET i == IndexOf(its, arg.ID)
         IN  [its EXCEPT ![i] =
                 IF op = "take" THEN [@ EXCEPT !.Side = Cover]
                 ELSE IF op = "show" THEN [@ EXCEPT !.Side = Face]
                 ELSE IF @.Side # arg.Side
                         /\ (~IsOwned(@) \/ IsOwnedBy(@, u))
                 THEN [@ EXCEPT !.Side = arg.Side]
                 ELSE @]

\* the item a handler copies out of its transaction for the response and
\* the event: none for join and shuffle
UpdatedOf(its, op, arg) ==
    IF op \in {"join", "shuffle"} THEN {}
    ELSE IF op = "take" THEN {[Get(its, arg.ID) EXCEPT !.Side = Face]}
    ELSE {Get(its, arg.ID)}

\* a handler that runs its function on the table without Table.Update, as
\* newTable runs Join
LockTableUnguarded(t, op, u, arg) ==
    /\ Begin(t)
    /\ budget' = budget - 1
    /\ task' = [task EXCEPT ![t] =
                   [IdleTask EXCEPT !.pc = "locked", !.op = op, !.user = u,
                                    !.arg = arg,
                                    !.pre = [items |-> items,
                                             players |-> players]]]
    /\ out' = NoOut
    /\ txn' = NoTxn
    /\ UNCHANGED <<registered, items, players, readers, viewer, chans,
                   nextChan, vis, handlers>>

\* ctx.table.Update(func ...): the handler of a mutation takes the exclusive
\* lock of the table
LockTable(t, op, u, arg) ==
    /\ Begin(t) /\ CanLock
    /\ budget' = budget - 1
    /\ task' = [task EXCEPT ![t] =
                   [IdleTask EXCEPT !.pc = "locked", !.op = op, !.user = u,
                                    !.arg = arg,
                                    !.pre = [items |-> items,
                                             players |-> players]]]
    /\ out' = NoOut
    /\ txn' = NoTxn
    /\ UNCHANGED <<registered, items, players, readers, viewer, chans,
                   nextChan, vis, handlers>>

\* the transaction this step ended, with the table as it was when its
\* handler entered the section
TxnOf(t, tk) == [t |-> t, op |-> tk.op, user |-> tk.user, arg |-> tk.arg,
                 items |-> tk.pre.items, players |-> tk.pre.players]

\* the transaction function up to its first writes: an error ends the
\* transaction, and so does a join by a user who is seated already
FirstHalf(t) ==
    /\ task[t].pc = "locked"
    /\ LET tk == task[t]
           err == TxnError(items, players, tk.op, tk.user, tk.arg)
       IN  IF err.code # ""
           THEN /\ out' = ErrorOut(tk.user, tk.op, err.code, err.msg)
                /\ task' = [task EXCEPT ![t] = IdleTask]
                /\ txn' = TxnOf(t, tk)
                /\ UNCHANGED <<items, players>>
           ELSE IF tk.op = "join" /\ tk.user \in DOMAIN players
           THEN /\ out' = ResponseOut([tk EXCEPT !.code = StatusFound])
                /\ task' = [task EXCEPT ![t] = IdleTask]
                /\ txn' = TxnOf(t, tk)
                /\ UNCHANGED <<items, players>>
           ELSE \E perm \in Perms(1..NumCards) :
                LET w == FirstWrites(items, players, tk.op, tk.user, tk.arg,
                                     perm)
                IN  /\ items' = w.items
                    /\ players' = w.players
                    /\ task' = [task EXCEPT ![t].pc = "half"]
                    /\ out' = NoOut
                    /\ txn' = NoTxn
    /\ UNCHANGED <<registered, readers, viewer, chans, nextChan, budget, vis,
                   handlers>>

\* the rest of the transaction function and the return of Table.Update:
\* the last writes, the copy of the item and the list of the other players
SecondHalf(t) ==
    /\ task[t].pc = "half"
    /\ LET tk == task[t]
           its == LastWrites(items, tk.op, tk.user, tk.arg)
           done == [IdleTask EXCEPT
                       !.op = tk.op, !.user = tk.user,
                       !.code = IF tk.op \in {"join", "shuffle"}
                                THEN StatusFound ELSE StatusOK,
                       !.updated = UpdatedOf(its, tk.op, tk.arg)]
       IN  /\ items' = its
           /\ txn' = TxnOf(t, tk)
           /\ IF tk.op = "take"
              THEN /\ task' = [task EXCEPT ![t] =
                                  [done EXCEPT !.pc = "rlock",
                                               !.seated = DOMAIN players]]
                   /\ out' = NoOut
              ELSE \E order \in Perms(OtherPlayers(players, tk.user)) :
                   AfterCommit(t,
                       [done EXCEPT
                           !.notifyThem = order,
                           !.players = (tk.op = "join"),
                           !.seated = IF tk.op = "join" THEN DOMAIN players
                                      ELSE {},
                           !.refs = IF tk.op = "join"
                                    THEN {its[i].ID :
                                            i \in (Len(items) + 1)..Len(its)}
                                    ELSE {}])
    /\ UNCHANGED <<registered, players, readers, viewer, chans, nextChan,
                   budget, vis, handlers>>

----------------------------------------------------------------------------
(* Push fan-out: PlayerList.NotifyAll and Player.Dispatch *)

\* NotifyAll goes on to the next player; after the last one the handler
\* leaves its shared section, if it holds one, and answers
Advance(t) ==
    IF Len(task[t].notifyThem) = 1
    THEN /\ task' = [task EXCEPT ![t] = IdleTask]
         /\ out' = ResponseOut(task[t])
         /\ readers' = readers \ {t}
    ELSE /\ task' = [task EXCEPT ![t].notifyThem = Tail(@), ![t].ch = 0]
         /\ out' = NoOut
         /\ readers' = readers

\* a NotifyAll that stops at the first player without a channel
DispatchReadStopsAtAbsent(t) ==
    /\ task[t].pc = "notify" /\ task[t].ch = 0
    /\ LET p == Head(task[t].notifyThem)
           c == players[p].updates
       IN  IF c = 0
           THEN /\ task' = [task EXCEPT ![t] = IdleTask]
                /\ out' = ResponseOut(task[t])
                /\ readers' = readers \ {t}
           ELSE /\ task' = [task EXCEPT ![t].ch = c]
                /\ out' = NoOut
                /\ readers' = readers
    /\ txn' = NoTxn
    /\ UNCHANGED <<registered, items, players, viewer, chans, nextChan, budget,
                   vis,
                   handlers>>

\* Player.Dispatch reads p.updates: no channel attached drops the event
DispatchRead(t) ==
    /\ task[t].pc = "notify" /\ task[t].ch = 0
    /\ LET p == Head(task[t].notifyThem)
           c == players[p].updates
       IN  IF c = 0
           THEN Advance(t)
           ELSE /\ task' = [task EXCEPT ![t].ch = c]
                /\ out' = NoOut
                /\ readers' = readers
    /\ txn' = NoTxn
    /\ UNCHANGED <<registered, items, players, viewer, chans, nextChan, budget,
                   vis,
                   handlers>>

\* p.updates <- push: the send meets the receive of the viewer loop
DispatchSend(t) ==
    /\ task[t].pc = "notify" /\ task[t].ch # 0
    /\ chans[task[t].ch] = "open"
    /\ viewer[task[t].ch].pc = "loop"
    /\ viewer' = [viewer EXCEPT ![task[t].ch].pc = "handle",
                                ![task[t].ch].update = PushOf(task[t]),
                                ![task[t].ch].seated = task[t].seated]
    /\ Advance(t)
    /\ txn' = NoTxn
    /\ UNCHANGED <<registered, items, players, chans, nextChan, budget, vis,
                   handlers>>

\* a Dispatch that does not recover: the panic of the send ends the handler
DispatchPanicUnrecovered(t) ==
    /\ task[t].pc = "notify" /\ task[t].ch # 0
    /\ chans[task[t].ch] = "closed"
    /\ task' = [task EXCEPT ![t] = IdleTask]
    /\ out' = [NoOut EXCEPT !.kind = "error", !.to = task[t].user,
                            !.op = task[t].op,
                            !.log = "send on closed channel"]
    /\ readers' = readers \ {t}
    /\ txn' = NoTxn
    /\ UNCHANGED <<registered, items, players, viewer, chans, nextChan, budget,
                   vis,
                   handlers>>

\* p.updates <- push on a closed channel: the panic is recovered and
\* logged, Dispatch returns and NotifyAll goes on
DispatchPanic(t) ==
    /\ task[t].pc = "notify" /\ task[t].ch # 0
    /\ chans[task[t].ch] = "closed"
    /\ IF Len(task[t].notifyThem) = 1
       THEN /\ task' = [task EXCEPT ![t] = IdleTask]
            /\ out' = [ResponseOut(task[t]) EXCEPT
                           !.log = "Player.Dispatch panic"]
            /\ readers' = readers \ {t}
       ELSE /\ task' = [task EXCEPT ![t].notifyThem = Tail(@), ![t].ch = 0]
            /\ out' = [NoOut EXCEPT !.log = "Player.Dispatch panic"]
            /\ readers' = readers
    /\ txn' = NoTxn
    /\ UNCHANGED <<registered, items, players, viewer, chans, nextChan, budget,
                   vis,
                   handlers>>

----------------------------------------------------------------------------
(* Viewer connections *)

\* close(c) panics: c was closed before
ClosePanics(c) == c # 0 /\ chans[c] = "closed"

\* a Subscribe that attaches the new channel and leaves the old one open
SubscribeKeepsOld(u, k) ==
    /\ chans' = [chans EXCEPT ![k] = "open"]
    /\ players' = [players EXCEPT ![u].updates = k]

\* Player.Subscribe(updates) on the player of u with the new channel k: the
\* channel attached before is closed first; if that close panics the
\* recovered call returns before the assignment
Subscribe(u, k) ==
    LET old == players[u].updates
    IN  IF ClosePanics(old)
        THEN /\ chans' = [chans EXCEPT ![k] = "open"]
             /\ players' = players
        ELSE /\ chans' = [c \in Chans |-> IF c = k THEN "open"
                                           ELSE IF c = old THEN "closed"
                                           ELSE chans[c]]
             /\ players' = [players EXCEPT ![u].updates = k]

\* server.pushTableUpdates: make the channel, subscribe in a transaction,
\* upgrade the connection and enter the loop
PushTableUpdates(u) ==
    /\ registered /\ CanLock /\ nextChan < MaxChans
    /\ IF u \notin DOMAIN players
       THEN /\ out' = NotSeated(u, "listen")
            /\ UNCHANGED <<players, viewer, chans, nextChan>>
       ELSE /\ nextChan' = nextChan + 1
            /\ Subscribe(u, nextChan + 1)
            /\ viewer' = [viewer EXCEPT ![nextChan + 1] =
                              [IdleViewer EXCEPT
                                  !.pc = "loop", !.user = u,
                                  !.attached =
                                      ~ClosePanics(players[u].updates)]]
            /\ out' = IF ClosePanics(players[u].updates)
                      THEN [NoOut EXCEPT !.log = "Player.Subscribe panic"]
                      ELSE NoOut
    /\ txn' = Txn(0, "listen", u, Arg(0))
    /\ UNCHANGED <<registered, items, readers, task, budget, vis,
                   handlers>>

\* server.pushTableUpdates when upgrader.Upgrade fails: the channel is made
\* and subscribed, the handler returns the error and no loop ever receives
\* from the channel
PushTableUpdatesNoUpgrade(u) ==
    /\ registered /\ CanLock /\ nextChan < MaxChans
    /\ u \in DOMAIN players
    /\ nextChan' = nextChan + 1
    /\ Subscribe(u, nextChan + 1)
    /\ viewer' = [viewer EXCEPT ![nextChan + 1] =
                      [IdleViewer EXCEPT
                          !.pc = "lost", !.user = u,
                          !.attached = ~ClosePanics(players[u].updates)]]
    /\ out' = [NoOut EXCEPT
                  !.kind = "error", !.to = u, !.op = "listen",
                  !.msg = "upgrader.Upgrade",
                  !.log = IF ClosePanics(players[u].updates)
                          THEN "Player.Subscribe panic" ELSE ""]
    /\ txn' = Txn(0, "listen", u, Arg(0))
    /\ UNCHANGED <<registered, items, readers, task, budget, vis,
                   handlers>>

\* a handlePush that writes the copy of the event as it is
PushOutUnfiltered(update, curUser) ==
    LET resp == {CopyItem(i) : i \in update.Items} \cup
                {CopyItem(items[i]) :
                    i \in {j \in 1..Len(items) : items[j].ID \in update.Refs}}
    IN  [NoOut EXCEPT
            !.kind = "push", !.to = curUser, !.op = update.Type,
            !.src = resp, !.items = resp,
            !.items2 = {AltSecret(i) : i \in resp},
            !.players = IF update.Players THEN CopyPlayers(players)
                        ELSE NoPlayers]

\* what handlePush writes for the event update to the connection of curUser
PushOut(update, curUser) ==
    LET resp == {CopyItem(i) : i \in update.Items} \cup
                {CopyItem(items[i]) :
                    i \in {j \in 1..Len(items) : items[j].ID \in update.Refs}}
    IN  [NoOut EXCEPT
            !.kind = "push", !.to = curUser, !.op = update.Type,
            !.src = resp,
            !.items = {ApplyVisibilityRules(i, curUser) : i \in resp},
            !.items2 = {ApplyVisibilityRules(AltSecret(i), curUser) : i \in resp},
            !.players = IF update.Players THEN CopyPlayers(players)
                        ELSE NoPlayers]

\* a handlePush that filters the items of the event itself, not of a copy:
\* the handler and the other recipients hold the same items
HandlePushInPlace(k) ==
    /\ viewer[k].pc = "handle"
    /\ out' = PushOut(viewer[k].update, viewer[k].user)
    /\ LET ev == viewer[k].update
           seen == {ApplyVisibilityRules(i, viewer[k].user) : i \in ev.Items}
       IN  /\ viewer' = [c \in Chans |->
                            IF c = k
                            THEN [viewer[c] EXCEPT !.pc = "loop",
                                                   !.update = NoPush,
                                                   !.seated = {}]
                            ELSE IF viewer[c].update = ev /\ ev.Items # {}
                            THEN [viewer[c] EXCEPT !.update.Items = seen]
                            ELSE viewer[c]]
           /\ task' = [t \in Tasks |->
                          IF task[t].pc = "notify" /\ ev.Items # {}
                             /\ task[t].updated = ev.Items
                          THEN [task[t] EXCEPT !.updated = seen]
                          ELSE task[t]]
    /\ txn' = NoTxn
    /\ UNCHANGED <<registered, items, players, readers, chans, nextChan,
                   budget, vis,
                   handlers>>

\* handlePush on an event: deep copy, filter for this viewer, write
HandlePush(k) ==
    /\ viewer[k].pc = "handle"
    /\ out' = PushOut(viewer[k].update, viewer[k].user)
    /\ viewer' = [viewer EXCEPT ![k].pc = "loop", ![k].update = NoPush,
                                ![k].seated = {}]
    /\ txn' = NoTxn
    /\ UNCHANGED <<registered, items, players, readers, task, chans, nextChan,
                   budget, vis,
                   handlers>>

\* a loop that unsubscribes its player when it ends on the closed-channel
\* signal: it closes and detaches the channel attached by then, the newer one
HandleClosedUnsubscribes(k) ==
    /\ viewer[k].pc = "loop" /\ chans[k] = "closed"
    /\ out' = [NoOut EXCEPT !.kind = "notice", !.to = viewer[k].user,
                            !.msg = "terminated by another connection"]
    /\ viewer' = [viewer EXCEPT ![k].pc = "end"]
    /\ LET u == viewer[k].user
           c == players[u].updates
       IN  /\ chans' = [chans EXCEPT ![c] = "closed"]
           /\ players' = [players EXCEPT ![u].updates = 0]
    /\ txn' = NoTxn
    /\ UNCHANGED <<registered, items, readers, task, nextChan,
                   budget, vis,
                   handlers>>

\* handlePush(nil): the channel was closed by a newer connection; the loop
\* writes the terminal notice and ends
HandleClosed(k) ==
    /\ viewer[k].pc = "loop" /\ chans[k] = "closed"
    /\ out' = [NoOut EXCEPT !.kind = "notice", !.to = viewer[k].user,
                            !.msg = "terminated by another connection"]
    /\ viewer' = [viewer EXCEPT ![k].pc = "end"]
    /\ txn' = NoTxn
    /\ UNCHANGED <<registered, items, players, readers, task, chans, nextChan,
                   budget, vis,
                   handlers>>

----------------------------------------------------------------------------
(* Read entry point *)

\* handlePush on an event whose write fails with an error other than EPIPE:
\* the error is logged and the loop goes on; the event is lost
HandlePushError(k) ==
    /\ viewer[k].pc = "handle"
    /\ out' = [NoOut EXCEPT !.log = "conn.WriteJSON"]
    /\ viewer' = [viewer EXCEPT ![k].pc = "loop", ![k].update = NoPush,
                                ![k].seated = {}]
    /\ txn' = NoTxn
    /\ UNCHANGED <<registered, items, players, readers, task, chans, nextChan,
                   budget, vis, handlers>>

\* the end of the loop on a write that failed with EPIPE: close(updates) and
\* return; the player keeps the channel. A close of a channel that a newer
\* connection closed already panics
LoopGone(k) ==
    /\ chans' = [chans EXCEPT ![k] = "closed"]
    /\ viewer' = [viewer EXCEPT ![k].pc = "gone", ![k].update = NoPush,
                                ![k].seated = {}]
    /\ out' = [NoOut EXCEPT !.log = IF ClosePanics(k)
                                    THEN "close of closed channel"
                                    ELSE "conn.WriteJSON"]
    /\ txn' = NoTxn
    /\ UNCHANGED <<registered, items, players, readers, task, nextChan,
                   budget, vis, handlers>>

\* handlePush on an event whose write fails with EPIPE: the peer is gone
HandlePushGone(k) ==
    /\ viewer[k].pc = "handle"
    /\ LoopGone(k)

\* the loop after 15 seconds without an event: the ping is written, or its
\* write fails with an error other than EPIPE and is logged
PingLoop(k) ==
    /\ viewer[k].pc = "loop"
    /\ \E ok \in BOOLEAN :
          out' = IF ok THEN [NoOut EXCEPT !.kind = "ping",
                                          !.to = viewer[k].user]
                 ELSE [NoOut EXCEPT !.log = "conn.WriteMessage"]
    /\ txn' = NoTxn
    /\ UNCHANGED <<registered, items, players, readers, task, viewer, chans,
                   nextChan, budget, vis, handlers>>

\* the loop after 15 seconds without an event when the ping fails with
\* EPIPE: the peer is gone
PingGone(k) ==
    /\ viewer[k].pc = "loop"
    /\ LoopGone(k)

\* a getTableState that returns the deep copy without filtering it
SnapshotOutUnfiltered(curUser) ==
    LET tableCopy == CopyItems(items)
        its == {tableCopy[i] : i \in 1..Len(tableCopy)}
    IN  [NoOut EXCEPT
            !.kind = "snapshot", !.to = curUser, !.op = "state",
            !.code = StatusOK, !.src = its, !.items = its,
            !.items2 = {AltSecret(i) : i \in its},
            !.players = CopyPlayers(players)]

\* what getTableState returns to curUser: the deep copy, filtered
SnapshotOut(curUser) ==
    LET tableCopy == CopyItems(items)
        its == {tableCopy[i] : i \in 1..Len(tableCopy)}
    IN  [NoOut EXCEPT
            !.kind = "snapshot", !.to = curUser, !.op = "state",
            !.code = StatusOK, !.src = its,
            !.items = {ApplyVisibilityRules(i, curUser) : i \in its},
            !.items2 = {ApplyVisibilityRules(AltSecret(i), curUser) : i \in its},
            !.players = CopyPlayers(players)]

\* a tableState whose getTableState does not look for the player
TableStateAnyone(u) ==
    /\ registered /\ budget > 0
    /\ budget' = budget - 1
    /\ out' = SnapshotOut(u)
    /\ txn' = Txn(0, "state", u, Arg(0))
    /\ UNCHANGED <<registered, items, players, readers, task, viewer, chans,
                   nextChan, vis,
                   handlers>>

\* a getTableState that filters the items of the table itself, not of a
\* copy
TableStateFiltersStored(u) ==
    /\ registered /\ budget > 0 /\ NoWriter
    /\ budget' = budget - 1
    /\ out' = IF u \notin DOMAIN players THEN NotSeated(u, "state")
              ELSE SnapshotOut(u)
    /\ items' = IF u \notin DOMAIN players THEN items
                ELSE [i \in 1..Len(items) |-> ApplyVisibilityRules(items[i], u)]
    /\ txn' = Txn(0, "state", u, Arg(0))
    /\ UNCHANGED <<registered, players, readers, task, viewer, chans,
                   nextChan, vis,
                   handlers>>

\* server.tableState with getTableState
TableState(u) ==
    /\ registered /\ budget > 0 /\ NoWriter
    /\ budget' = budget - 1
    /\ out' = IF u \notin DOMAIN players THEN NotSeated(u, "state")
              ELSE SnapshotOut(u)
    /\ txn' = Txn(0, "state", u, Arg(0))
    /\ UNCHANGED <<registered, items, players, readers, task, viewer, chans,
                   nextChan, vis,
                   handlers>>

----------------------------------------------------------------------------
(* Table creation *)

\* server.newTable: NewTable, StartGame and s.tables.Set
NewTable(t, u) ==
    /\ ~registered /\ FreeTask(t)
    /\ registered' = TRUE
    /\ items' = StartGame
    /\ players' = NoPlayers
    /\ task' = [task EXCEPT ![t] = [IdleTask EXCEPT !.pc = "seat", !.op = "new",
                                                    !.user = u,
                                                    !.code = StatusFound]]
    /\ out' = NoOut
    /\ txn' = NoTxn
    /\ UNCHANGED <<readers, viewer, chans, nextChan, budget, vis,
                   handlers>>

\* server.newTable: table.Join(curUser), outside any transaction, and the
\* redirect
NewTableJoin(t) ==
    /\ task[t].pc = "seat"
    /\ items' = items \o JoinItems(items, task[t].user)
    /\ players' = JoinPlayers(players, task[t].user)
    /\ task' = [task EXCEPT ![t] = IdleTask]
    /\ out' = ResponseOut(task[t])
    /\ txn' = NoTxn
    /\ UNCHANGED <<registered, readers, viewer, chans, nextChan, budget, vis,
                   handlers>>

----------------------------------------------------------------------------
(* The filter on its own *)

VisItems ==
    [ID : {1}, Class : {CardClass, ChipClass, DealerClass, PlayerClass},
     OwnerID : {"", "A", "B"}, Side : {"", Cover, Face}, Rank : {"", "A"},
     Suit : {BlankSuit, Spades}, Color : {"", "gray"}, Val : {0, 1},
     X : {0}, Y : {1}]

\* it.ApplyVisibilityRules(curUser) on a fresh item
VisApply ==
    /\ vis.pc = "in"
    /\ vis' = [vis EXCEPT !.pc = "once",
                          !.out = ApplyVisibilityRules(vis.item, vis.viewer)]
    /\ txn' = NoTxn
    /\ UNCHANGED <<registered, items, players, readers, handlers, task, viewer,
                   chans, nextChan, budget, out>>

\* it.ApplyVisibilityRules(curUser) on the item it has already filtered
VisApplyAgain ==
    /\ vis.pc = "once"
    /\ vis' = [vis EXCEPT !.pc = "twice", !.prev = vis.out,
                          !.out = ApplyVisibilityRules(vis.out, vis.viewer)]
    /\ txn' = NoTxn
    /\ UNCHANGED <<registered, items, players, readers, handlers, task, viewer,
                   chans, nextChan, budget, out>>

----------------------------------------------------------------------------
(* Specifications *)

\* the handlers at rest, no connection
InitHandlers ==
    /\ readers = {}
    /\ task = [t \in Tasks |-> IdleTask]
    /\ viewer = [k \in Chans |-> IdleViewer]
    /\ chans = [k \in Chans |-> "unmade"]
    /\ nextChan = 0
    /\ out = NoOut
    /\ txn = NoTxn

\* the table after the users of us joined one after the other
RECURSIVE Seated(_)
Seated(us) ==
    IF us = <<>> THEN [items |-> StartGame, players |-> NoPlayers]
    ELSE LET prev == Seated(SubSeq(us, 1, Len(us) - 1))
             u == us[Len(us)]
         IN  [items |-> prev.items \o JoinItems(prev.items, u),
              players |-> JoinPlayers(prev.players, u)]

\* card 1 as earlier requests can have left it: as dealt, turned face up on
\* the table, taken by A, taken and shown by A
SavedCards(c) ==
    {c, [c EXCEPT !.Side = Face], Take(c, "A"), Show(Take(c, "A"), "A")}

\* the tables a previous run can have saved: two players and the deck as
\* dealt, or three players and card 1 in any of its states
SavedTables ==
    {Seated(<<"A", "B">>)} \cup
    {[Seated(<<"A", "B", "C">>) EXCEPT !.items[1] = c] :
        c \in SavedCards(Seated(<<"A", "B", "C">>).items[1])}

\* main with a state file: server.loadState brings back the table a previous
\* run saved, players seated and cards in hand; no channel is attached
Init ==
    /\ registered = TRUE
    /\ \E saved \in SavedTables :
          /\ items = saved.items
          /\ players = saved.players
    /\ InitHandlers
    /\ handlers = {1}
    /\ budget = MaxReq
    /\ vis = IdleVis

JoinTableReq == \E t \in Tasks, u \in Users : JoinTable(t, u)

TakeCardReq == \E t \in Tasks, u \in Users, id \in 0..NumCards :
                   TakeCard(t, u, id)

TakeCardNotify == \E t \in Tasks : TakeCardReadLock(t)

ShowCardReq == \E t \in Tasks, u \in Users, id \in 0..NumCards :
                   ShowCard(t, u, id)

\* the items a client proposes in an update
\* a card moved and turned, a card with another class, the first player
\* marker moved, an item that does not exist; each names B as the owner
Proposals ==
    [ID : 1..NumCards, Class : {CardClass}, X : {1}, Y : {2},
     Side : {Cover, Face}, OwnerID : {"B"}] \cup
    [ID : {1}, Class : {ChipClass}, X : {1}, Y : {2}, Side : {Face},
     OwnerID : {"B"}] \cup
    [ID : {NumCards + 1}, Class : {PlayerClass}, X : {1}, Y : {2},
     Side : {""}, OwnerID : {"B"}] \cup
    [ID : {0}, Class : {CardClass}, X : {1}, Y : {2}, Side : {Cover},
     OwnerID : {"B"}]

UpdateTableReq == \E t \in Tasks, u \in Users, src \in Proposals :
                      UpdateTable(t, u, src)

ShuffleReq == \E t \in Tasks, u \in Users : ShuffleTable(t, u)

TableStateReq == \E u \in Users : TableState(u)

ListenReq == \E u \in Users : PushTableUpdates(u)

Dispatch == \E t \in Tasks : DispatchRead(t)

Send == \E t \in Tasks : DispatchSend(t)

SendPanic == \E t \in Tasks : DispatchPanic(t)

Push == \E k \in Chans : HandlePush(k)

Closed == \E k \in Chans : HandleClosed(k)

ListenNoUpgrade == \E u \in Users : PushTableUpdatesNoUpgrade(u)

PushError == \E k \in Chans : HandlePushError(k)

PushGone == \E k \in Chans : HandlePushGone(k)

Ping == \E k \in Chans : PingLoop(k)

PingPeerGone == \E k \in Chans : PingGone(k)

Next ==
    \/ JoinTableReq
    \/ TakeCardReq
    \/ TakeCardNotify
    \/ ShowCardReq
    \/ UpdateTableReq
    \/ ShuffleReq
    \/ TableStateReq
    \/ ListenReq
    \/ Dispatch
    \/ Send
    \/ SendPanic
    \/ Push
    \/ Closed

Spec == Init /\ [][Next]_vars

\* main without a state file: no table yet; the run serves the requests that
\* fill a table and one more
InitSeat ==
    /\ registered = FALSE
    /\ items = <<>>
    /\ players = NoPlayers
    /\ InitHandlers
    /\ handlers = Tasks
    /\ budget = maxPlayers + 1
    /\ vis = IdleVis

NewTableReq == \E t \in Tasks, u \in Users : NewTable(t, u)

NewTableSeat == \E t \in Tasks : NewTableJoin(t)

NextSeat ==
    \/ NewTableReq
    \/ NewTableSeat
    \/ JoinTableReq
    \/ TableStateReq
    \/ Dispatch

SpecSeat == InitSeat /\ [][NextSeat]_vars

\* a saved table served by all the handlers at once while no viewer is
\* connected: the transactions, their fan-out over players without a channel
\* and the snapshots
InitTxn ==
    /\ registered = TRUE
    /\ \E saved \in SavedTables :
          /\ items = saved.items
          /\ players = saved.players
    /\ InitHandlers
    /\ handlers = Tasks
    /\ budget = MaxReq
    /\ vis = IdleVis

NextTxn ==
    \/ JoinTableReq
    \/ TakeCardReq
    \/ TakeCardNotify
    \/ ShowCardReq
    \/ UpdateTableReq
    \/ ShuffleReq
    \/ TableStateReq
    \/ Dispatch

SpecTxn == InitTxn /\ [][NextTxn]_vars

\* the requests of the mutation entry points
Requests ==
    [op : {"join", "shuffle"}, arg : {Arg(0)}] \cup
    [op : {"take", "show"}, arg : {Arg(id) : id \in 0..NumCards}] \cup
    [op : {"update"}, arg : Proposals]

LockReq == \E t \in Tasks, u \in Users, r \in Requests :
               LockTable(t, r.op, u, r.arg)

FirstWrite == \E t \in Tasks : FirstHalf(t)

LastWrite == \E t \in Tasks : SecondHalf(t)

\* the saved table served by all the handlers at once, each transaction
\* write by write
NextLock ==
    \/ LockReq
    \/ FirstWrite
    \/ LastWrite
    \/ TakeCardNotify
    \/ TableStateReq
    \/ Dispatch

SpecLock == InitTxn /\ [][NextLock]_vars

\* a saved table whose viewers' connections fail: upgrades that fail, writes
\* that fail, peers that are gone, while players join, take cards and
\* shuffle
NextConn ==
    \/ JoinTableReq
    \/ TakeCardReq
    \/ TakeCardNotify
    \/ ShuffleReq
    \/ ListenReq
    \/ ListenNoUpgrade
    \/ Dispatch
    \/ Send
    \/ SendPanic
    \/ Push
    \/ Closed
    \/ PushError
    \/ PushGone
    \/ Ping
    \/ PingPeerGone

SpecConn == Init /\ [][NextConn]_vars

\* the scheduling of the run: a handler or a loop that can take its next
\* step takes it (a goroutine that can run is run, a send and a receive
\* that are both ready meet, a write returns); no request and no failure of
\* a peer is bound to come
Scheduling ==
    /\ WF_vars(TakeCardNotify)
    /\ WF_vars(Dispatch)
    /\ WF_vars(Send)
    /\ WF_vars(SendPanic)
    /\ WF_vars(Push \/ PushError \/ PushGone)
    /\ WF_vars(Closed)

SpecLive == Init /\ [][NextConn]_vars /\ Scheduling

\* main with the state file of a table at which only A sits: the others
\* join while A and the joiners listen
InitRef ==
    /\ registered = TRUE
    /\ items = Seated(<<"A">>).items
    /\ players = Seated(<<"A">>).players
    /\ InitHandlers
    /\ handlers = {1}
    /\ budget = MaxReq
    /\ vis = IdleVis

NextRef ==
    \/ JoinTableReq
    \/ UpdateTableReq
    \/ ListenReq
    \/ Dispatch
    \/ Send
    \/ SendPanic
    \/ Push
    \/ Closed

SpecRef == InitRef /\ [][NextRef]_vars

InitVis ==
    /\ registered = FALSE
    /\ items = <<>>
    /\ players = NoPlayers
    /\ InitHandlers
    /\ handlers = {}
    /\ budget = 0
    /\ \E it \in VisItems, u \in {"A", "B", "C"} :
          vis = [IdleVis EXCEPT !.pc = "in", !.item = it, !.viewer = u,
                                !.out = it, !.prev = it]

NextVis == VisApply \/ VisApplyAgain

SpecVis == InitVis /\ [][NextVis]_vars

----------------------------------------------------------------------------
(* Properties *)

\* C1: no push is dispatched to a player's channel while the acting handler
\* holds the table's lock: a handler that sends an event on a channel holds
\* no section of the table.
NoDispatchUnderLock ==
    [][\A t \in Tasks : DispatchSend(t) => t \notin readers]_vars

\* a card whose rank and suit viewer v must not learn: owned by another
\* user, or unowned and stored cover
Hidden(s, v) ==
    /\ Is(s, CardClass)
    /\ ~IsOwnedBy(s, v)
    /\ (IsOwned(s) \/ s.Side = Cover)

\* C2: what the engine delivers to a viewer (snapshot, push, response to its
\* own action) is the same in two runs that differ only in the rank and
\* suit of cards hidden from that viewer.
NonInterference ==
    \A s \in out.src :
        Hidden(s, out.to) =>
            \A i \in out.items, j \in out.items2 :
                (i.ID = s.ID /\ j.ID = s.ID) => i = j

\* C3: every push payload written to the connection of a viewer is filtered
\* for that viewer: a card owned by another user is cover and blank, and a
\* card that is cover is blank.
PushFiltered ==
    out.kind = "push" =>
        \A i \in out.items :
            Is(i, CardClass) =>
                /\ (i.OwnerID \notin {"", out.to} =>
                        i.Side = Cover /\ i.Rank = "" /\ i.Suit = BlankSuit)
                /\ (i.Side = Cover => i.Rank = "" /\ i.Suit = BlankSuit)

\* the take event, built face up with its rank, reached another viewer
PushFilteredWitness ==
    /\ out.kind = "push" /\ out.op = UpdateItems
    /\ \E s \in out.src :
          /\ Is(s, CardClass) /\ s.Side = Face /\ s.Rank # ""
          /\ s.OwnerID \notin {"", out.to}
          /\ \E i \in out.items : i.ID = s.ID /\ i.Side = Cover

\* C4: the filter on a card: the owner sees it face with the stored rank and
\* suit; any other viewer of an owned card sees it cover and blank; whatever
\* the stored orientation.
OwnerSeesOthersDoNot ==
    (vis.pc = "once" /\ Is(vis.item, CardClass)) =>
        /\ (vis.item.OwnerID = vis.viewer =>
                /\ vis.out.Side = Face
                /\ vis.out.Rank = vis.item.Rank
                /\ vis.out.Suit = vis.item.Suit)
        /\ (vis.item.OwnerID \notin {"", vis.viewer} =>
                /\ vis.out.Side = Cover
                /\ vis.out.Rank = ""
                /\ vis.out.Suit = BlankSuit)

\* the filter ran on a card stored face with its rank, for a viewer who is
\* not its owner
OwnerSeesOthersDoNotWitness ==
    /\ vis.pc = "once" /\ Is(vis.item, CardClass)
    /\ vis.item.OwnerID = "A" /\ vis.viewer = "B"
    /\ vis.item.Side = Face /\ vis.item.Rank = "A"

\* C5: the snapshot returned to a seated viewer is the stored table with the
\* filter applied for that viewer to every item: the same ids, positions,
\* owners and classes, and the view of each card the filter dictates.
SnapshotIsFilteredTable ==
    out.kind = "snapshot" =>
        /\ Cardinality(out.items) = Len(items)
        /\ \A j \in 1..Len(items) :
              \E i \in out.items :
                  /\ i.ID = items[j].ID
                  /\ i.X = items[j].X /\ i.Y = items[j].Y
                  /\ i.OwnerID = items[j].OwnerID
                  /\ i.Class = items[j].Class
                  /\ i = ApplyVisibilityRules(items[j], out.to)

\* a snapshot was returned in which the filter changed a card
SnapshotIsFilteredTableWitness ==
    /\ out.kind = "snapshot"
    /\ \E j \in 1..Len(items) :
          /\ Is(items[j], CardClass) /\ items[j].Side = Face
          /\ items[j].OwnerID \notin {"", out.to}

\* C6: the filter is idempotent: applied twice for the same viewer it gives
\* what it gave the first time.
FilterIdempotent == vis.pc = "twice" => vis.out = vis.prev

\* the filter ran twice on an item that its first run changed
FilterIdempotentWitness == vis.pc = "twice" /\ vis.prev # vis.item

\* C7: the filter leaves an item that is not a card as it is, every field,
\* for every viewer.
NonCardsUntouched ==
    (vis.pc \in {"once", "twice"} /\ ~Is(vis.item, CardClass)) =>
        vis.out = vis.item

\* the filter ran on a chip of another user that carries a side and a rank
NonCardsUntouchedWitness ==
    /\ vis.pc = "once" /\ Is(vis.item, ChipClass)
    /\ vis.item.OwnerID = "A" /\ vis.viewer = "B"
    /\ vis.item.Side = Cover /\ vis.item.Rank = "A"

\* C8: a join by a further user at a table of maxPlayers fails with the
\* table-full error, leaves players and items as they are, and the handler
\* returns without notifying anyone.
SeatCapacity ==
    [][\A t \in Tasks, u \in Users :
          (/\ JoinTable(t, u)
           /\ u \notin DOMAIN players
           /\ Cardinality(DOMAIN players) >= maxPlayers)
          => /\ players' = players
             /\ items' = items
             /\ task' = task
             /\ out' = ErrorOut(u, "join", StatusForbidden,
                                "this table is full")]_vars

\* a user who is not seated was refused at a table of maxPlayers
SeatCapacityWitness ==
    /\ out.op = "join" /\ out.msg = "this table is full"
    /\ out.to \notin DOMAIN players
    /\ Cardinality(DOMAIN players) = maxPlayers

\* C9: a table never holds more than maxPlayers seated players.
AtMostMaxPlayers == Cardinality(DOMAIN players) <= maxPlayers

\* C10: a join by a user who is seated already succeeds, changes neither
\* players (seat index and color are kept) nor items, and the handler
\* returns without notifying anyone.
JoinAgainIsNoop ==
    [][\A t \in Tasks, u \in Users :
          (JoinTable(t, u) /\ u \in DOMAIN players)
          => /\ players' = players
             /\ items' = items
             /\ task' = task
             /\ out'.kind = "response" /\ out'.to = u
             /\ out'.code = StatusFound]_vars

\* the seated user A was answered by join
JoinAgainIsNoopWitness ==
    /\ out.op = "join" /\ out.to = "A" /\ out.code = StatusFound
    /\ "A" \in DOMAIN players /\ players["A"].Index = 0

\* the step ran a transaction function that returned an error
Failed == txn.op # "" /\ out.kind = "response"
          /\ out.code \notin {StatusOK, StatusFound}

\* the update of this step passed the checks of updateItem
UpdateAccepted ==
    /\ txn.op = "update"
    /\ txn.user \in DOMAIN txn.players
    /\ HasItem(txn.items, txn.arg.ID)
    /\ Get(txn.items, txn.arg.ID).Class = txn.arg.Class

\* C11: an update by a seated user with a proposed item of the stored class
\* sets the stored x and y to the proposed ones, sets the stored orientation
\* to the proposed one exactly when the item is unowned or owned by that
\* user, and leaves the owner as it is.
UpdateMovesAndGuardsTurn ==
    UpdateAccepted =>
        LET i == IndexOf(txn.items, txn.arg.ID)
            dest == txn.items[i]
        IN  /\ items[i].X = txn.arg.X
            /\ items[i].Y = txn.arg.Y
            /\ items[i].Side =
                   IF ~IsOwned(dest) \/ IsOwnedBy(dest, txn.user)
                   THEN txn.arg.Side ELSE dest.Side
            /\ items[i].OwnerID = dest.OwnerID

\* B moved a card of A and proposed the other orientation and itself as the
\* owner
UpdateMovesAndGuardsTurnWitness ==
    /\ UpdateAccepted /\ txn.user = "B"
    /\ LET dest == Get(txn.items, txn.arg.ID)
       IN  /\ dest.OwnerID = "A" /\ txn.arg.OwnerID = "B"
           /\ dest.Side # txn.arg.Side
           /\ dest.X # txn.arg.X
           /\ Get(items, txn.arg.ID).X = txn.arg.X

\* the class an item is created with: the cards of the deck, then for each
\* seat its player marker and its chips
CreatedClass(i) ==
    IF i <= NumCards THEN CardClass
    ELSE IF (i - NumCards - 1) % (ChipsPerSeat + 1) = 0 THEN PlayerClass
    ELSE ChipClass

\* C12: the class of an item never changes: an update that proposes another
\* class is answered bad request and leaves items and players as they were,
\* and every item has the class it was created with whatever was run.
ClassImmutable ==
    /\ \A i \in 1..Len(items) : items[i].Class = CreatedClass(i)
    /\ txn.op # "" =>
          \A i \in 1..Len(txn.items) : items[i].Class = txn.items[i].Class
    /\ (/\ txn.op = "update"
        /\ txn.user \in DOMAIN txn.players
        /\ HasItem(txn.items, txn.arg.ID)
        /\ Get(txn.items, txn.arg.ID).Class # txn.arg.Class)
       => /\ out = ErrorOut(txn.user, "update", StatusBadRequest,
                            "attempt to update readonly field .Class")
          /\ items = txn.items
          /\ players = txn.players

\* a seated user proposed card 1 as a chip at another place and was refused
ClassImmutableWitness ==
    /\ txn.op = "update" /\ out.code = StatusBadRequest
    /\ txn.arg.Class = ChipClass
    /\ Get(txn.items, txn.arg.ID).Class = CardClass
    /\ Get(txn.items, txn.arg.ID).X # txn.arg.X

\* C13: the owner of an item changes only from unowned to owned: an item
\* that has an owner keeps that owner through every take, show, update and
\* join, also through a take by another user.
OwnerOnlySet ==
    txn.op \in {"take", "show", "update", "join"} =>
        \A i \in 1..Len(txn.items) :
            IsOwned(txn.items[i]) => items[i].OwnerID = txn.items[i].OwnerID

\* the card in the snapshots after a step: its owner sees it face up with
\* the rank and suit of card was, every other user sees it covered and blank
OwnerViewsFaceOthersCover(now, was) ==
    \A v \in Users :
        LET view == ApplyVisibilityRules(CopyItem(now), v)
        IN  IF v = now.OwnerID
            THEN /\ view.Side = Face
                 /\ view.Rank = was.Rank /\ view.Suit = was.Suit
            ELSE /\ view.Side = Cover
                 /\ view.Rank = "" /\ view.Suit = BlankSuit

\* the take of this step took a card that had no owner
TookUnowned ==
    /\ txn.op = "take" /\ ~Failed
    /\ Is(Get(txn.items, txn.arg.ID), CardClass)
    /\ ~IsOwned(Get(txn.items, txn.arg.ID))

\* the show of this step was run by the owner of the card
ShowedOwn ==
    /\ txn.op = "show" /\ ~Failed
    /\ Is(Get(txn.items, txn.arg.ID), CardClass)

\* C14: after a user takes an unowned card the stored owner is that user
\* and the stored orientation cover, the taker's snapshot shows the card face
\* with its rank and suit and every other snapshot shows it cover and blank;
\* after the owner shows the card the stored orientation is face and the
\* snapshots show the same.
TakeThenShow ==
    /\ TookUnowned =>
          LET now == Get(items, txn.arg.ID)
          IN  /\ now.OwnerID = txn.user
              /\ now.Side = Cover
              /\ OwnerViewsFaceOthersCover(now, Get(txn.items, txn.arg.ID))
    /\ ShowedOwn =>
          LET now == Get(items, txn.arg.ID)
          IN  /\ now.OwnerID = txn.user
              /\ now.Side = Face
              /\ OwnerViewsFaceOthersCover(now, Get(txn.items, txn.arg.ID))

\* the second request of the run: A showed the card it holds covered, as its
\* take leaves it
TakeThenShowWitness ==
    /\ ShowedOwn /\ txn.user = "A" /\ budget = 0
    /\ Get(txn.items, txn.arg.ID).Side = Cover
    /\ Get(txn.items, txn.arg.ID).Rank = "A"
    /\ Get(items, txn.arg.ID).Side = Face

\* the handler of this step's transaction has returned: it is at rest again
\* and hands no event to NotifyAll
HandlerReturned == txn.t \in Tasks /\ task[txn.t] = IdleTask

\* the table is as the transaction of this step found it
TableUntouched == items = txn.items /\ players = txn.players

\* C15: a show of an item id that does not exist fails with not found, a
\* show of an item the acting user does not own (unowned, or owned by
\* another user) fails with forbidden; either way the table is unchanged and
\* the handler returns without notifying anyone.
ShowFails ==
    (txn.op = "show" /\ txn.user \in DOMAIN txn.players) =>
        /\ ~HasItem(txn.items, txn.arg.ID) =>
              /\ out = ErrorOut(txn.user, "show", StatusNotFound,
                                "item not found")
              /\ TableUntouched /\ HandlerReturned
        /\ (/\ HasItem(txn.items, txn.arg.ID)
            /\ Get(txn.items, txn.arg.ID).OwnerID # txn.user) =>
              /\ out.kind = "response" /\ out.to = txn.user
              /\ out.code = StatusForbidden
              /\ TableUntouched /\ HandlerReturned

\* B asked to show the card A holds covered, while C is connected
ShowFailsWitness ==
    /\ txn.op = "show" /\ txn.user = "B" /\ out.code = StatusForbidden
    /\ HasItem(txn.items, txn.arg.ID)
    /\ Get(txn.items, txn.arg.ID).OwnerID = "A"
    /\ Get(txn.items, txn.arg.ID).Side = Cover
    /\ \E k \in Chans : viewer[k].pc = "loop" /\ viewer[k].user = "C"

\* C16: update, take, show, shuffle, the snapshot and the subscription,
\* asked by a user who is not seated at the table, fail with forbidden,
\* leave items and players as they are, attach no channel (no player record
\* changes, no viewer loop runs for the user) and the handler returns
\* without notifying anyone.
NotSeatedForbidden ==
    (/\ txn.op \in {"update", "take", "show", "shuffle", "state", "listen"}
     /\ txn.user \notin DOMAIN txn.players) =>
        /\ out = NotSeated(txn.user, txn.op)
        /\ TableUntouched
        /\ \A k \in Chans : viewer[k].user # txn.user
        /\ \A t \in handlers : task[t].user # txn.user

\* D, who has no seat, asked to listen at a table where A is connected
NotSeatedForbiddenWitness ==
    /\ txn.op = "listen" /\ txn.user = "D" /\ out.code = StatusForbidden
    /\ "D" \notin DOMAIN players
    /\ \E k \in Chans : viewer[k].pc = "loop" /\ viewer[k].user = "A"

\* the operations that change the table
Mutations == {"join", "take", "show", "update", "shuffle"}

\* C17: when the transaction function of join, take, show, update or
\* shuffle returns an error, the handler answers the actor and returns: it
\* never reaches NotifyAll, so no event of the failed action is handed to
\* any player's channel.
FailedActionNotifiesNobody ==
    (Failed /\ txn.op \in Mutations) =>
        /\ HandlerReturned
        /\ out.to = txn.user

\* an update of a seated user was refused while another player is connected
\* and waits for events
FailedActionNotifiesNobodyWitness ==
    /\ Failed /\ txn.op = "update" /\ out.code = StatusBadRequest
    /\ \E k \in Chans :
          /\ viewer[k].pc = "loop" /\ viewer[k].user # txn.user
          /\ chans[k] = "open"
          /\ players[viewer[k].user].updates = k

\* C18: a transaction of join, take, show, update or shuffle that reports
\* failure leaves no partial mutation: items (position, orientation, owner)
\* and players are exactly as they were when the action began.
NoPartialMutation ==
    (Failed /\ txn.op \in Mutations) => TableUntouched

\* D was refused at the full table while another handler is at work
NoPartialMutationWitness ==
    /\ Failed /\ txn.op = "join" /\ txn.user = "D"
    /\ Cardinality(DOMAIN txn.players) = maxPlayers
    /\ \E t \in handlers : task[t].pc \in {"notify", "rlock"}

\* the users in a fan-out list
Listed(l) == {l[i] : i \in 1..Len(l)}

\* C20: the fan-out list of a committed join, take, show, update or shuffle
\* is exactly the set of players seated at its commit other than the acting
\* user: the list made in the transaction names all of them, the list of a
\* take names nobody who was not seated when the take committed, and the
\* actor is in no list.
FanOutIsOthersAtCommit ==
    /\ (txn.op \in {"join", "show", "update", "shuffle"} /\ ~Failed
        /\ (txn.op = "join" => txn.user \notin DOMAIN txn.players)) =>
          Listed(task[txn.t].notifyThem) = DOMAIN players \ {txn.user}
    /\ \A t \in Tasks :
          (task[t].op = "take" /\ task[t].pc = "notify") =>
              Listed(task[t].notifyThem) \subseteq
                  task[t].seated \ {task[t].user}
    /\ \A t \in Tasks :
          task[t].pc = "notify" => task[t].user \notin Listed(task[t].notifyThem)

\* the table and the result a transaction function gives when it runs alone
\* on the table tbl: what the step that ended the transaction must show
RanAlone(tbl, t, op, u, arg) ==
    LET err == TxnError(tbl.items, tbl.players, op, u, arg)
    IN  IF err.code # ""
        THEN /\ items = tbl.items /\ players = tbl.players
             /\ out = ErrorOut(u, op, err.code, err.msg)
        ELSE IF op = "join" /\ u \in DOMAIN tbl.players
        THEN /\ items = tbl.items /\ players = tbl.players
             /\ out.kind = "response" /\ out.to = u
             /\ out.code = StatusFound
        ELSE \E perm \in Perms(1..NumCards) :
             LET w == FirstWrites(tbl.items, tbl.players, op, u, arg, perm)
                 its == LastWrites(w.items, op, u, arg)
             IN  /\ items = its
                 /\ players = w.players
                 /\ IF task[t].pc = "idle"
                    THEN /\ out.kind = "response" /\ out.to = u
                         /\ out.items = UpdatedOf(its, op, arg)
                    ELSE task[t].updated = UpdatedOf(its, op, arg)

\* C19: at most one writer: no two handlers are inside a transaction
\* function at once, a snapshot is never taken while one is, and every
\* transaction of join, take, show, update or shuffle ends with the stored
\* table and the result for its actor that its function gives when it runs
\* alone on the table as it was when the handler entered; so a run of
\* concurrent transactions leaves the table and returns the results of the
\* sequential order in which they entered.
AtMostOneWriter ==
    /\ \A t1, t2 \in Tasks :
          (task[t1].pc \in {"locked", "half"}
           /\ task[t2].pc \in {"locked", "half"}) => t1 = t2
    /\ out.kind = "snapshot" => NoWriter
    /\ txn.op \in Mutations =>
          RanAlone([items |-> txn.items, players |-> txn.players], txn.t,
                   txn.op, txn.user, txn.arg)

\* the second handler ended a transaction that changed the table while the
\* first, whose transaction of another user changed it before, is still at
\* work
AtMostOneWriterWitness ==
    /\ txn.op \in Mutations /\ txn.t = 2 /\ ~Failed
    /\ items # txn.items
    /\ task[1].pc \in {"rlock", "notify"}
    /\ task[1].user # txn.user
    /\ task[1].updated # {}

\* C21: the list of the players to notify is read inside the same lock
\* section as the mutation, so no join commits between a mutation and the
\* reading of its list: when a join seats a new player, no handler is
\* between a committed transaction and the reading of its list.
NoJoinBeforeListRead ==
    (txn.op = "join" /\ ~Failed /\ txn.user \notin DOMAIN txn.players) =>
        \A t \in Tasks : task[t].pc # "rlock"

\* the ids of the items of a list
Ids(l) == {l[i].ID : i \in 1..Len(l)}

\* the kind an event must have and what it must carry: a refresh nothing, a
\* player_joined the seat map and item references, an update_items one item
WellFormed(p) ==
    \/ p = [Type |-> Refresh, Items |-> {}, Refs |-> {}, Players |-> FALSE]
    \/ p.Type = PlayerJoined /\ p.Players /\ p.Refs # {} /\ p.Items = {}
    \/ (p.Type = UpdateItems /\ ~p.Players /\ p.Refs = {}
        /\ Cardinality(p.Items) = 1)

\* C22: each committed mutation dispatches one event of its fixed kind to
\* each recipient: shuffle a refresh with no items and no players, join a
\* player_joined with the seat map and the items the join created, take,
\* show and update an update_items with exactly the one changed item; no
\* other kind of event reaches a viewer.
OneEventOfFixedKind ==
    /\ \A t \in Tasks :
          task[t].pc = "notify" =>
              /\ WellFormed(PushOf(task[t]))
              /\ Cardinality(Listed(task[t].notifyThem)) =
                     Len(task[t].notifyThem)
              /\ PushOf(task[t]).Type =
                     IF task[t].op = "shuffle" THEN Refresh
                     ELSE IF task[t].op = "join" THEN PlayerJoined
                     ELSE UpdateItems
    /\ (txn.op = "join" /\ task[txn.t].pc = "notify") =>
          PushOf(task[txn.t]).Refs = Ids(items) \ Ids(txn.items)
    /\ (txn.op \in {"take", "show", "update"} /\ ~Failed) =>
          \A t \in Tasks :
              (task[t].pc \in {"notify", "rlock"} /\ t = txn.t) =>
                  \E x \in PushOf(task[t]).Items :
                      /\ x.ID = txn.arg.ID
                      /\ [x EXCEPT !.Side = Get(items, x.ID).Side] =
                             Get(items, x.ID)
                      /\ items = [txn.items EXCEPT
                                     ![IndexOf(items, x.ID)] =
                                         Get(items, x.ID)]
    /\ \A k \in Chans :
          viewer[k].pc = "handle" => WellFormed(viewer[k].update)

\* viewers hold a refresh and a player_joined they were sent, and a handler
\* is handing out the item of an update
OneEventOfFixedKindWitness ==
    /\ \E k \in Chans : viewer[k].pc = "handle"
                        /\ viewer[k].update.Type = PlayerJoined
    /\ \E t \in Tasks : task[t].pc = "notify" /\ task[t].op = "update"

\* the channels attached to the player of u that are open
OpenAttached(u) ==
    {k \in Chans : viewer[k].user = u /\ viewer[k].attached
                   /\ chans[k] = "open"}

\* C23: subscribing a channel to a player that has a channel attached closes
\* the old channel first, and in every state a player has at most one
\* attached channel that is open: the one its updates field holds.
OneLiveSubscriber ==
    /\ \A u \in DOMAIN players :
          /\ Cardinality(OpenAttached(u)) <= 1
          /\ OpenAttached(u) \subseteq {players[u].updates}
    /\ (txn.op = "listen" /\ txn.user \in DOMAIN txn.players
        /\ txn.players[txn.user].updates # 0) =>
          chans[txn.players[txn.user].updates] = "closed"

\* a second connection of a player has just subscribed while the loop of
\* the first was waiting on its channel, open until then
OneLiveSubscriberWitness ==
    /\ txn.op = "listen" /\ txn.user \in DOMAIN players
    /\ txn.players[txn.user].updates = 1
    /\ players[txn.user].updates = 2
    /\ viewer[1].pc = "loop" /\ viewer[1].attached
    /\ chans[1] = "closed" /\ chans[2] = "open"
    /\ out.log = ""

\* handler t has dealt with the first player of its list: it is at the next
\* one with no channel in hand, or it has answered its request
WentOn(t) ==
    IF Len(task[t].notifyThem) = 1
    THEN /\ task'[t] = IdleTask
         /\ out'.kind = "response" /\ out'.to = task[t].user
         /\ out'.code \in {StatusOK, StatusFound}
    ELSE /\ task'[t] = [task[t] EXCEPT !.notifyThem = Tail(@), !.ch = 0]
         /\ Head(task[t].notifyThem) \notin Listed(task'[t].notifyThem)

\* C24: a dispatch to a player with no channel attached drops the event: the
\* call returns at once and the fan-out goes on, the event is kept for no
\* later connection of that player (no viewer and no channel changes, the
\* handler does not name the player again), and the table and the players
\* are unchanged.
DropsWithoutChannel ==
    [][\A t \in Tasks :
          (DispatchRead(t) /\ players[Head(task[t].notifyThem)].updates = 0)
          => /\ WentOn(t)
             /\ UNCHANGED <<items, players, viewer, chans, nextChan>>]_vars

\* a player has connected right after the handler, which is still handing
\* out its event, passed it by: it had no channel then, and its loop holds
\* no event
DropsWithoutChannelWitness ==
    /\ txn.op = "listen" /\ txn.user \in DOMAIN txn.players
    /\ txn.players[txn.user].updates = 0
    /\ players[txn.user].updates # 0
    /\ viewer[players[txn.user].updates].pc = "loop"
    /\ viewer[players[txn.user].updates].update = NoPush
    /\ \E t \in Tasks :
          /\ task[t].pc = "notify" /\ Len(task[t].notifyThem) = 1
          /\ task[t].user # txn.user
          /\ txn.user \notin Listed(task[t].notifyThem)
          /\ task[t].op = "shuffle"

\* C25: a dispatch to a player whose attached channel has been closed,
\* before the dispatch or while it waited to send, returns normally: the
\* handler goes on to the remaining recipients and answers its request, and
\* nothing else changes.
ClosedChannelDoesNotStopFanOut ==
    [][\A t \in Tasks :
          (task[t].pc = "notify" /\ task[t].ch # 0
           /\ chans[task[t].ch] = "closed" /\ task'[t] # task[t])
          => /\ WentOn(t)
             /\ UNCHANGED <<items, players, viewer, chans, nextChan>>]_vars

\* the send of a handler has just panicked on the channel its recipient
\* still has attached, closed by the loop of a peer that is gone, and the
\* handler is at its next recipient
ClosedChannelDoesNotStopFanOutWitness ==
    /\ out.log = "Player.Dispatch panic"
    /\ \E t \in Tasks :
          /\ task[t].pc = "notify" /\ task[t].ch = 0
          /\ \E p \in DOMAIN players \ Listed(task[t].notifyThem) :
                /\ p # task[t].user
                /\ ClosePanics(players[p].updates)
                /\ viewer[players[p].updates].pc = "gone"

\* C26: under fair scheduling no action on the table is blocked forever
\* waiting for the table lock, whatever the state of the viewers: a handler
\* that holds the shared lock releases it, so that every exclusive update
\* and every snapshot that asks for the lock gets it.
LockAlwaysReleased == (readers # {}) ~> (readers = {})

\* C27 as stated: the set of item ids is fixed once the game has started;
\* after any join, take, show, update or shuffle the table holds exactly
\* the item ids it held before.
ItemIdsFixed == txn.op \in Mutations => Ids(items) = Ids(txn.items)

\* C27: the set of item ids changes only by a join that seats a new player,
\* which adds the ids of the marker and the chips of that seat, all new, and
\* removes none; take, show, update and shuffle, a refused join and the join
\* of a seated player leave the ids as they were. No id is held twice.
ItemIdsGrowOnlyByJoin ==
    /\ Cardinality(Ids(items)) = Len(items)
    /\ txn.op \in {"take", "show", "update", "shuffle"} =>
          (Ids(items) = Ids(txn.items) /\ Len(items) = Len(txn.items))
    /\ txn.op = "join" =>
          IF ~Failed /\ txn.user \notin DOMAIN txn.players
          THEN /\ SubSeq(items, 1, Len(txn.items)) = txn.items
               /\ Ids(items) \ Ids(txn.items) =
                      Ids(JoinItems(txn.items, txn.user))
               /\ Len(items) = Len(txn.items) + 1 + ChipsPerSeat
          ELSE items = txn.items

\* C has just been seated by the last request of the run and the table has
\* the items of the new seat
ItemIdsGrowOnlyByJoinWitness ==
    /\ txn.op = "join" /\ ~Failed /\ txn.user = "C"
    /\ Ids(items) # Ids(txn.items)
    /\ budget = 0

\* C28: fetching a snapshot never changes the stored table: the items and
\* the players are after the fetch what they were before it, also the cards
\* the snapshot shows blanked to its viewer, so the snapshot of any other
\* viewer is what it would be had this one not been fetched.
SnapshotLeavesTable == txn.op = "state" => TableUntouched

\* a snapshot has just shown a viewer a blanked card whose rank the table
\* still holds, while another handler is at work
SnapshotLeavesTableWitness ==
    /\ txn.op = "state" /\ out.kind = "snapshot"
    /\ \E x \in out.items :
          /\ x.Rank = "" /\ Get(items, x.ID).Rank # ""
          /\ IsOwned(Get(items, x.ID))
    /\ \E t \in Tasks : task[t].pc = "notify"

\* C29: after subscribe(ch) returns, ch is the channel attached to the
\* player, whatever was attached before: nothing, an open channel, or a
\* channel its own loop closed when the peer was gone; the new connection
\* then receives the events dispatched later.
SubscribedIsAttached ==
    (txn.op = "listen" /\ txn.user \in DOMAIN txn.players) =>
        /\ players[txn.user].updates = nextChan
        /\ chans[nextChan] = "open"

\* C30: a loop that ends on a write failure that says the peer is gone
\* releases its subscription: afterwards its channel is not attached to the
\* player, so a later dispatch is dropped and not sent to a closed channel.
ReleasedWhenPeerGone ==
    \A k \in Chans :
        viewer[k].pc = "gone" => players[viewer[k].user].updates # k

\* C36: for a card nobody owns the filter leaves the orientation as stored
\* for every viewer, and the viewer sees rank and suit exactly when the
\* card is stored face up: a covered card goes out blank, a face card with
\* its rank and suit, and nothing else of the card changes.
UnownedAsStored ==
    (vis.pc = "once" /\ Is(vis.item, CardClass) /\ ~IsOwned(vis.item)
     /\ vis.item.Side \in {Cover, Face}) =>
        /\ vis.out.Side = vis.item.Side
        /\ vis.item.Side = Face => vis.out = vis.item
        /\ vis.item.Side = Cover =>
              vis.out = [vis.item EXCEPT !.Rank = "", !.Suit = BlankSuit]

\* the filter has run on an ace of spades that lies face up and is owned by
\* nobody
UnownedAsStoredFaceWitness ==
    /\ vis.pc = "once" /\ Is(vis.item, CardClass) /\ ~IsOwned(vis.item)
    /\ vis.item.Side = Face /\ vis.item.Rank = "A" /\ vis.item.Suit = Spades
    /\ vis.out.Rank = "A"

\* C35: no channel is ever closed twice: neither the close of a Subscribe
\* that supersedes an attached channel nor the close of a loop that ends
\* because its peer is gone is executed on a channel that is closed already
\* (the step of such a close logs its panic).
NoChannelClosedTwice ==
    out.log \notin {"Player.Subscribe panic", "close of closed channel"}

\* the loop of channel k waits on a channel a newer Subscribe has closed
Superseded(k) == viewer[k].pc = "loop" /\ chans[k] = "closed"

FilteredIndependently ==
    [][/\ \A k \in Chans :
             (viewer[k].pc = "handle" /\ viewer'[k].pc # "handle") =>
                 /\ task' = task
                 /\ items' = items
                 /\ \A c \in Chans \ {k} : viewer'[c] = viewer[c]
                 /\ out'.kind = "push" /\ out'.to = viewer[k].user
                 /\ viewer[k].update.Type = UpdateItems =>
                       out'.items =
                           {ApplyVisibilityRules(CopyItem(i), viewer[k].user) :
                               i \in viewer[k].update.Items}
       /\ \A t \in Tasks :
             task[t].pc = "notify" =>
                 /\ task'[t].pc = "notify" =>
                       task'[t].updated = task[t].updated
                 /\ task'[t] = IdleTask => out'.items = task[t].updated
      ]_vars

\* C has just been written the card B moved, covered and blank, while the
\* loop of A, the owner, still holds the same event with the card face up
\* and its rank, and the handler of B is still handing the event out or has
\* answered
FilteredIndependentlyWitness ==
    /\ out.kind = "push" /\ out.to = "C" /\ out.op = UpdateItems
    /\ \E x \in out.items :
          /\ x.Side = Cover /\ x.Rank = ""
          /\ \E k \in Chans :
                /\ viewer[k].user = "A" /\ viewer[k].pc = "handle"
                /\ \E y \in viewer[k].update.Items :
                      /\ y.ID = x.ID /\ y.OwnerID = "A"
                      /\ y.Side = Face /\ y.Rank # ""
                      /\ Get(items, y.ID).Side = Face

\* C33: every change to the items or the seated players of a table that is
\* in the registry, the seating of its creator included, is made inside an
\* exclusive transaction on the table: a step that changes them is the step
\* of a transaction of join, take, show, update, shuffle or listen.
WritesInsideTransaction ==
    [][(registered /\ (items' # items \/ players' # players)) =>
           txn'.op \in Mutations \cup {"listen"}]_vars

\* C34: what leaves a transaction for dispatch is a snapshot: the seat map a
\* recipient serializes from a player_joined event is the seat map of the
\* commit that made the event, also when a later join commits before the
\* recipient's loop copies the event.
SerializesCommitState ==
    [][\A k \in Chans :
          (viewer[k].pc = "handle" /\ viewer[k].update.Type = PlayerJoined
           /\ viewer'[k].pc = "loop" /\ out'.kind = "push") =>
              DOMAIN out'.players = viewer[k].seated]_vars

====
